---------------------------- MODULE Spec2Model ----------------------------
(***************************************************************************)
(* Model of the snapshot transfer scripts copy-snapshot.py and             *)
(* ipf-mv-snap.py.                                                         *)
(*                                                                         *)
(* A Python string is a sequence of one-character strings.  The pure       *)
(* functions parse_selection, parse_auth and snap_upload's response        *)
(* classification are operators; main and copy_single_snapshot are the     *)
(* state machine further down.                                             *)
(***************************************************************************)
EXTENDS Integers, Sequences, FiniteSets, TLC

\* Python's None.
None == "None"

Max(S) == CHOOSE m \in S : \A x \in S : x <= m
Min(S) == CHOOSE m \in S : \A x \in S : m <= x

\* All sequences over alphabet A of length at most n.
StrUpTo(A, n) == UNION {[1..k -> A] : k \in 0..n}

(***************************************************************************)
(* parse_selection (copy-snapshot.py:71-90)                                *)
(***************************************************************************)
\* Longest selection string drawn by SpecSel.
MaxSelLen == 4
\* Largest catalog size drawn by SpecSel.
MaxSelN == 3

Digits == {"0", "1", "3"}
SelAlphabet == Digits \cup {"-", ",", " ", "x"}

\* str.isdigit(): non-empty and every character a digit.
isdigit(s) == Len(s) > 0 /\ \A i \in 1..Len(s) : s[i] \in Digits

DigitVal(c) == CASE c = "0" -> 0 [] c = "1" -> 1 [] c = "3" -> 3

\* int(s) of a digit string, base 10.
RECURSIVE int(_)
int(s) == IF s = <<>> THEN 0
          ELSE 10 * int(SubSeq(s, 1, Len(s) - 1)) + DigitVal(s[Len(s)])

\* selection.replace(" ", "")
RemoveSpaces(s) == SelectSeq(s, LAMBDA c : c # " ")

\* str.split(","): the list of the fields between commas, empty ones included.
RECURSIVE split(_)
split(s) ==
    IF \A i \in 1..Len(s) : s[i] # "," THEN <<s>>
    ELSE LET k == Min({i \in 1..Len(s) : s[i] = ","})
         IN  <<SubSeq(s, 1, k - 1)>> \o split(SubSeq(s, k + 1, Len(s)))

\* The length of the longest run of digits of s that starts at position from
\* (what a greedy \d+ takes there).
DigitRun(s, from) ==
    Max({k \in (from - 1)..Len(s) : \A j \in from..k : s[j] \in Digits}) - from + 1

\* re.match(r"(\d+)-(\d+)", part): anchored at the start of part only; None
\* when there is no match, else the two groups.
re_match(part) ==
    LET n1 == DigitRun(part, 1) IN
    IF n1 = 0 \/ n1 + 1 > Len(part) THEN None
    ELSE IF part[n1 + 1] # "-" THEN None
    ELSE LET n2 == DigitRun(part, n1 + 2) IN
         IF n2 = 0 THEN None
         ELSE <<SubSeq(part, 1, n1), SubSeq(part, n1 + 2, n1 + 1 + n2)>>

\* range(start, end + 1) filtered by 1 <= i <= max_index, converted to 0-based.
RangeIndices(start, end, max_index) ==
    {i - 1 : i \in {j \in start..end : 1 <= j /\ j <= max_index}}

\* The indices one part adds to the set (the body of the for loop).
PartIndices(part, max_index) ==
    IF \E i \in 1..Len(part) : part[i] = "-"
    THEN LET match == re_match(part) IN
         IF match # None
         THEN RangeIndices(int(match[1]), int(match[2]), max_index)
         ELSE {}
    ELSE IF isdigit(part)
         THEN LET idx == int(part) IN
              IF 1 <= idx /\ idx <= max_index THEN {idx - 1} ELSE {}
         ELSE {}

\* sorted(indices)
RECURSIVE SortedReverse(_)
SortedReverse(S) == IF S = {} THEN <<>>
                    ELSE LET m == Max(S) IN <<m>> \o SortedReverse(S \ {m})

RECURSIVE sorted(_)
sorted(S) == IF S = {} THEN <<>>
             ELSE LET m == Min(S) IN <<m>> \o sorted(S \ {m})

parse_selection(selection, max_index) ==
    LET parts == split(RemoveSpaces(selection))
    IN  sorted(UNION {PartIndices(parts[k], max_index) : k \in 1..Len(parts)})

\* sel_done: the call has returned, and sel_out is what it returned.
VARIABLES sel_in, sel_n, sel_out, sel_done

selVars == <<sel_in, sel_n, sel_out, sel_done>>

InitSel ==
    /\ sel_in \in StrUpTo(SelAlphabet, MaxSelLen)
    /\ sel_n \in 0..MaxSelN
    /\ sel_out = <<>>
    /\ sel_done = FALSE

IdleSel == sel_in = <<>> /\ sel_n = 0 /\ sel_out = <<>> /\ sel_done = TRUE

(***************************************************************************)
(* parse_auth (copy-snapshot.py:165-179)                                   *)
(*                                                                         *)
(* The credential string is a sequence of lexical tokens: "(", ")", ",",   *)
(* "{", "}", "S" (a quoted string literal such as 'u') and "x" (a bare     *)
(* name).  ast.literal_eval is modelled on these tokens as Python's        *)
(* parser and ast._convert behave on them.                                 *)
(***************************************************************************)
\* Longest credential (in tokens) drawn by SpecAuth.
MaxAuthLen == 6

AuthTokens == {"(", ")", ",", "{", "}", "S", "x"}
Openers == {"(", "{"}
Closers == {")", "}"}

\* Values and raised exceptions share one record shape.
Val(k, txt, its) == [kind |-> k, text |-> txt, items |-> its]
Str(txt) == Val("str", txt, <<>>)
Raise(exc) == Val("raise", <<exc>>, <<>>)
Node(k, its) == Val(k, <<>>, its)
SyntaxErr == Raise("SyntaxError")

\* Nesting depth after position i of t.
Depth(t, i) == Cardinality({j \in 1..i : t[j] \in Openers})
               - Cardinality({j \in 1..i : t[j] \in Closers})

\* Position of the bracket closing the one opened at position 1 (0: none).
MatchClose(t) ==
    LET c == {j \in 2..Len(t) : Depth(t, j) = 0} IN
    IF c = {} THEN 0 ELSE Min(c)

\* t cut at its commas of nesting depth 0.
RECURSIVE SplitTop(_)
SplitTop(t) ==
    LET c == {i \in 1..Len(t) : t[i] = "," /\ Depth(t, i) = 0} IN
    IF c = {} THEN <<t>>
    ELSE <<SubSeq(t, 1, Min(c) - 1)>> \o SplitTop(SubSeq(t, Min(c) + 1, Len(t)))

\* t cut into atoms and bracket groups; <<"!">> marks what cannot start one.
RECURSIVE SplitUnits(_)
SplitUnits(t) ==
    IF t = <<>> THEN <<>>
    ELSE IF t[1] \in {"S", "x"} THEN <<SubSeq(t, 1, 1)>> \o SplitUnits(Tail(t))
    ELSE IF t[1] \in Openers /\ MatchClose(t) # 0
         THEN <<SubSeq(t, 1, MatchClose(t))>>
              \o SplitUnits(SubSeq(t, MatchClose(t) + 1, Len(t)))
    ELSE <<(<<"!">>)>>

Inner(u) == SubSeq(u, 2, Len(u) - 1)

\* Python's expression grammar on these tokens: the syntax tree, or SyntaxErr.
RECURSIVE ParseExpr(_), ParseItems(_)
\* The expressions of a comma-separated list (one trailing comma allowed):
\* the sequence of their trees, or <<SyntaxErr>>.
ParseItems(t) ==
    LET pieces == SplitTop(t)
        k == Len(pieces)
        used == IF k >= 2 /\ pieces[k] = <<>> THEN SubSeq(pieces, 1, k - 1) ELSE pieces
        trees == [i \in 1..Len(used) |-> ParseExpr(used[i])]
    IN  IF \E i \in 1..Len(used) : trees[i] = SyntaxErr THEN <<SyntaxErr>> ELSE trees

\* A list with a top-level comma is a tuple, one without is the expression itself.
ParseTuple(t) ==
    LET its == ParseItems(t) IN
    IF its = <<SyntaxErr>> THEN SyntaxErr
    ELSE IF Len(SplitTop(t)) = 1 THEN its[1]
    ELSE Node("tuple", its)

ParseExpr(t) ==
    LET units == SplitUnits(t)
        n == Len(units)
        \* adjacent string literals are one string
        nstr == Max({k \in 0..n : \A i \in 1..k : units[i] = <<"S">>})
        nhead == IF nstr > 0 THEN nstr ELSE 1
        u == units[1]
        head == IF nstr > 0 THEN Str([i \in 1..nstr |-> "u"])
                ELSE IF u = <<"x">> THEN Node("name", <<>>)
                ELSE IF u[Len(u)] # (IF u[1] = "(" THEN ")" ELSE "}") THEN SyntaxErr
                ELSE IF u[1] = "("
                     THEN IF Inner(u) = <<>> THEN Node("tuple", <<>>)
                          ELSE ParseTuple(Inner(u))
                     ELSE IF Inner(u) = <<>> THEN Node("dict", <<>>)
                          ELSE LET its == ParseItems(Inner(u)) IN
                               IF its = <<SyntaxErr>> THEN SyntaxErr
                               ELSE Node("set", its)
        \* what follows the head must be call trailers: ( args )
        trailersOk == \A i \in (nhead + 1)..n :
                        /\ units[i][1] = "("
                        /\ units[i][Len(units[i])] = ")"
                        /\ \/ Inner(units[i]) = <<>>
                           \/ ParseItems(Inner(units[i])) # <<SyntaxErr>>
    IN  IF n = 0 \/ (\E i \in 1..n : units[i] = <<"!">>) THEN SyntaxErr
        ELSE IF head = SyntaxErr \/ ~trailersOk THEN SyntaxErr
        ELSE IF n > nhead THEN Node("call", <<>>)
        ELSE head

\* ast.parse(s, mode="eval")
Parse(t) == IF t = <<>> THEN SyntaxErr ELSE ParseTuple(t)

RECURSIVE Hashable(_)
Hashable(v) ==
    \/ v.kind = "str"
    \/ v.kind = "tuple" /\ \A i \in 1..Len(v.items) : Hashable(v.items[i])

\* ast.literal_eval's _convert: the value, or the first exception raised,
\* elements converted (and, in a set, hashed) left to right.
RECURSIVE Convert(_)
Convert(node) ==
    IF node.kind \in {"name", "call"} THEN Raise("ValueError")
    ELSE IF node.kind \in {"str", "dict"} THEN node
    ELSE LET r == [i \in 1..Len(node.items) |->
                     LET v == Convert(node.items[i]) IN
                     IF v.kind # "raise" /\ node.kind = "set" /\ ~Hashable(v)
                     THEN Raise("TypeError") ELSE v]
             bad == {i \in 1..Len(r) : r[i].kind = "raise"}
         IN  IF bad # {} THEN r[Min(bad)] ELSE Node(node.kind, r)

literal_eval(s) ==
    LET tree == Parse(s) IN
    IF tree = SyntaxErr THEN SyntaxErr ELSE Convert(tree)

\* An argument that is not a str (the option's default when the environment
\* variable is unset).
NotAStr == <<None>>

startswith(s, c) == Len(s) > 0 /\ s[1] = c
endswith(s, c) == Len(s) > 0 /\ s[Len(s)] = c

\* The value parse_auth returns, or the exception it raises.
parse_auth(auth) ==
    IF auth = NotAStr THEN Raise("TypeError")
    ELSE IF startswith(auth, "(") /\ endswith(auth, ")")
         THEN LET r == literal_eval(auth) IN
              IF r \in {Raise("ValueError"), Raise("SyntaxError")} THEN Str(auth)
              ELSE r
         ELSE Str(auth)

\* auth_done: the call has ended, and auth_out is what it returned or raised.
VARIABLES auth_in, auth_out, auth_done

authVars == <<auth_in, auth_out, auth_done>>

InitAuth ==
    /\ auth_in \in StrUpTo(AuthTokens, MaxAuthLen) \cup {NotAStr}
    /\ auth_out = Str(<<>>)
    /\ auth_done = FALSE

IdleAuth == auth_in = <<>> /\ auth_out = Str(<<>>) /\ auth_done = TRUE

(***************************************************************************)
(* snap_upload (copy-snapshot.py:182-204)                                  *)
(*                                                                         *)
(* An HTTP answer is [status, json, code, snapshot]: the status code,      *)
(* whether the body parses as JSON, and the body's "code" and snapshot     *)
(* identifier fields.  NoResponse stands for a transport failure.          *)
(***************************************************************************)
HTTP_400_STATUS == 400

Statuses == {200, 400, 409, 500}
Codes == {"API_SNAPSHOT_CONFLICT", "OTHER"}
\* Snapshot identifiers the destination hands out.
DstIds == {"d1", "d2"}

Response(st, js, c, sn) == [status |-> st, json |-> js, code |-> c, snapshot |-> sn]
NoResponse == Response(0, FALSE, "OTHER", None)
Responses(ids) ==
    {Response(st, js, c, sn) : st \in Statuses, js \in BOOLEAN, c \in Codes, sn \in ids}

\* httpx.Response.is_success
is_success(resp) == 200 <= resp.status /\ resp.status <= 299

\* What a call or a step of it ends with: a returned value or an exception.
Returned(v) == [raised |-> FALSE, exc |-> None, value |-> v]
Raised(e) == [raised |-> TRUE, exc |-> e, value |-> None]

\* How a request was answered: not at all, with a 2xx status, with another.
Answer(resp) ==
    IF resp = NoResponse THEN "none" ELSE IF is_success(resp) THEN "2xx" ELSE "error"

\* Lines 188-190: the version request, raise_for_status() and .json().
VersionStepUnchecked(vresp) ==
    IF vresp = NoResponse THEN Raised("TransportError")
    ELSE IF ~vresp.json THEN Raised("JSONDecodeError")
    ELSE Returned("apiVersion")

VersionStep(vresp) ==
    IF vresp = NoResponse THEN Raised("TransportError")
    ELSE IF ~is_success(vresp) THEN Raised("HTTPStatusError")
    ELSE IF ~vresp.json THEN Raised("JSONDecodeError")
    ELSE Returned("apiVersion")

\* The conflict test of line 197.
IsConflictAny4xx(resp) ==
    400 <= resp.status /\ resp.status <= 499 /\ resp.code = "API_SNAPSHOT_CONFLICT"

IsConflict(resp) ==
    resp.status = HTTP_400_STATUS /\ resp.code = "API_SNAPSHOT_CONFLICT"

\* The value of the bare `return` of line 200.
ConflictReturn(resp) == None

\* Lines 192-204: the upload request and the classification of its answer.
PostStep(resp) ==
    IF resp = NoResponse THEN Raised("TransportError")
    ELSE IF resp.status = HTTP_400_STATUS /\ ~resp.json THEN Raised("JSONDecodeError")
    ELSE IF IsConflict(resp) THEN Returned(ConflictReturn(resp))
    ELSE IF ~is_success(resp) THEN Raised("HTTPStatusError")
    ELSE IF ~resp.json THEN Raised("JSONDecodeError")
    ELSE Returned(resp.snapshot)   \* resp.json(), named by the identifier in it

(***************************************************************************)
(* main and copy_single_snapshot of copy-snapshot.py, main of              *)
(* ipf-mv-snap.py                                                          *)
(***************************************************************************)
\* Largest source catalog.
MaxSnaps == 3
\* Start timestamps: 0 is a snapshot without one.  The transfers do not read
\* them; the listing's order is checked in SpecSort over 0..MaxStart.
Starts == {0, 1}

JOB_CHECK_LOOP == 30
JOB_CHECK_LOOP_MV == 10

\* download_path when the download returned None.
NoPath == 0

Snap(i, st) == [id |-> i, start |-> st]
NoSnap == Snap(0, 0)

\* The catalogs of up to len snapshots: snapshot i of n has identifier i and
\* any start timestamp of S.
CatalogsOver(S, len) ==
    UNION {{[i \in 1..n |-> Snap(i, f[i])] : f \in [1..n -> S]} : n \in 0..len}

Catalogs == CatalogsOver(Starts, MaxSnaps)

\* What the operator may type at the selection prompt.
SelectionInputs ==
    { <<"1", "-", "3">>, <<"3", ",", "1">>, <<"1", ",", "3">>, <<"x">> }

SnapshotRefs == {"$last", "id", "absent"}

VARIABLES
    script,             \* "copy": copy-snapshot.py, "mv": ipf-mv-snap.py
    interactive,        \* --interactive
    keep_dl_file,       \* --keep
    snapshot_src,       \* --snapshot
    catalog,            \* ipf_download.snapshots.values()
    pc,                 \* where main is
    exit_code,          \* the process's exit status once pc = "done"
    all_snapshots, selection, selected_snapshots,
    confirmation,       \* the operator's answer to typer.confirm: "yes", "no"
    idx,                \* the loop index of line 300
    results,            \* [success, failed]
    snapshot,           \* the snapshot being transferred
    polls,              \* checks of the export job the running download() has made
    job,                \* what the last check of the export job said
    download_path,
    upload_file,
    requests,           \* requests the running upload has sent: <<method, answer>>
    up,                 \* how the upload step of the current transfer ended
    files,              \* downloaded files present on disk
    unlinks,            \* unlink() calls on the current artifact
    unlink_failed,      \* the unlink() call raised
    ret,                \* what copy_single_snapshot returned last
    xfer_done,          \* the current transfer has run to its end
    processed,          \* identifiers passed to copy_single_snapshot, in order
    started,            \* download() calls made
    reported            \* the summary report was printed

\* The variables of SpecUpload.
VARIABLES
    dst,        \* the destination's snapshots: pairs <<uploaded file, identifier>>
    calls       \* the snap_upload calls made: [file, vresp, resp, result]

uploadVars == <<dst, calls>>

IdleUpload == dst = {} /\ calls = <<>>

cfgVars == <<script, interactive, keep_dl_file, snapshot_src, catalog>>
\* What no step of main changes: the command line, the source catalog, and
\* the variables of the other specifications.
fixedVars == <<cfgVars, selVars, authVars, uploadVars>>
batchVars == <<all_snapshots, selection, selected_snapshots, confirmation, idx,
               results, processed, reported>>
xferVars == <<snapshot, polls, job, download_path, upload_file, requests, up, files,
              unlinks, unlink_failed, ret, xfer_done, started>>
mainVars == <<cfgVars, pc, exit_code, batchVars, xferVars>>

Mode == IF script = "mv" THEN "mv" ELSE IF interactive THEN "batch" ELSE "single"

NoRet == [success |-> FALSE, error |-> <<>>]

InitMain ==
    /\ script \in {"copy", "mv"}
    /\ interactive \in BOOLEAN
    /\ script = "mv" => ~interactive
    /\ keep_dl_file \in BOOLEAN
    /\ snapshot_src \in SnapshotRefs
    /\ interactive => snapshot_src = "$last"
    /\ catalog \in Catalogs
    /\ pc = "start"
    /\ exit_code = 0
    /\ all_snapshots = <<>>
    /\ selection = <<>>
    /\ selected_snapshots = <<>>
    /\ confirmation = "none"
    /\ idx = 0
    /\ results = [success |-> <<>>, failed |-> <<>>]
    /\ snapshot = NoSnap
    /\ polls = 0
    /\ job = "none"
    /\ download_path = NoPath
    /\ upload_file = FALSE
    /\ requests = <<>>
    /\ up = "none"
    /\ files = {}
    /\ unlinks = 0
    /\ unlink_failed = FALSE
    /\ ret = NoRet
    /\ xfer_done = FALSE
    /\ processed = <<>>
    /\ started = 0
    /\ reported = FALSE

\* typer.Exit(code), sys.exit() (status 0), a normal return (status 0) and an
\* uncaught exception (status 1) all end the process.
Exit(code) == pc' = "done" /\ exit_code' = code

\* sys.exit() without an argument: SystemExit(None), exit status 0.
SysExitStatus == 0
UncaughtStatus == 1

\* Line 260 (copy), line 92 (mv): the source client.
Connect ==
    /\ pc = "start"
    /\ \/ pc' = (IF Mode = "batch" THEN "listing" ELSE "locate") /\ UNCHANGED exit_code
       \/ Exit(UncaughtStatus)        \* the source cannot be reached
    /\ UNCHANGED <<fixedVars, batchVars, xferVars>>

\* key=lambda s: s.start if hasattr(s, "start") and s.start else datetime.min
SortKey(s) == s.start

\* list.sort(key=SortKey, reverse=True): stable, greatest key first.
RECURSIVE SortDescTiesReversed(_)
SortDescTiesReversed(seq) ==
    IF seq = <<>> THEN <<>>
    ELSE LET x == seq[Len(seq)]
             rest == SortDescTiesReversed(SubSeq(seq, 1, Len(seq) - 1))
             k == Cardinality({i \in 1..Len(rest) : SortKey(rest[i]) > SortKey(x)})
         IN  SubSeq(rest, 1, k) \o <<x>> \o SubSeq(rest, k + 1, Len(rest))

RECURSIVE SortDesc(_)
SortDesc(seq) ==
    IF seq = <<>> THEN <<>>
    ELSE LET x == seq[Len(seq)]
             rest == SortDesc(SubSeq(seq, 1, Len(seq) - 1))
             \* x goes behind every earlier element whose key is not smaller
             k == Cardinality({i \in 1..Len(rest) : SortKey(rest[i]) >= SortKey(x)})
         IN  SubSeq(rest, 1, k) \o <<x>> \o SubSeq(rest, k + 1, Len(rest))

\* `not lst` of lines 268 and 281: the list is empty.
EmptyNever(lst) == FALSE

Empty(lst) == lst = <<>>

\* Lines 265-273.
Listing ==
    /\ pc = "listing"
    /\ all_snapshots' = SortDesc(catalog)
    /\ IF Empty(all_snapshots')
       THEN Exit(1)
       ELSE pc' = "selecting" /\ UNCHANGED exit_code
    /\ UNCHANGED <<fixedVars, selection, selected_snapshots, confirmation, idx,
                   results, processed, reported, xferVars>>

\* Lines 276-290.
Select(s) ==
    /\ pc = "selecting"
    /\ selection' = s
    /\ LET selected_indices == parse_selection(s, Len(all_snapshots)) IN
       IF Empty(selected_indices)
       THEN Exit(1) /\ UNCHANGED selected_snapshots
       ELSE /\ selected_snapshots' =
                 [i \in 1..Len(selected_indices) |-> all_snapshots[selected_indices[i] + 1]]
            /\ pc' = "confirming"
            /\ UNCHANGED exit_code
    /\ UNCHANGED <<fixedVars, all_snapshots, confirmation, idx, results, processed,
                   reported, xferVars>>

\* Whether the loop is entered after the answer to typer.confirm.
ProceedsAlways(answer) == TRUE

Proceeds(answer) == answer

\* Lines 292-298.
Confirm(answer) ==
    /\ pc = "confirming"
    /\ confirmation' = IF answer THEN "yes" ELSE "no"
    /\ IF Proceeds(answer)
       THEN /\ results' = [success |-> <<>>, failed |-> <<>>]
            /\ pc' = "loop"
            /\ UNCHANGED exit_code
       ELSE Exit(0) /\ UNCHANGED results
    /\ UNCHANGED <<fixedVars, all_snapshots, selection, selected_snapshots, idx,
                   processed, reported, xferVars>>

\* The start of one transfer: nothing of the previous one is left over.
BeginTransfer(snap) ==
    /\ snapshot' = snap
    /\ polls' = 0
    /\ job' = "none"
    /\ download_path' = NoPath
    /\ requests' = <<>>
    /\ up' = "none"
    /\ unlinks' = 0
    /\ unlink_failed' = FALSE
    /\ xfer_done' = FALSE
    /\ UNCHANGED <<upload_file, files, ret, started>>

\* Lines 300-309: the next item of the loop enters copy_single_snapshot.
LoopNext ==
    /\ pc = "loop"
    /\ idx < Len(selected_snapshots)
    /\ idx' = idx + 1
    /\ BeginTransfer(selected_snapshots[idx + 1])
    /\ processed' = Append(processed, selected_snapshots[idx + 1].id)
    /\ pc' = "download"
    /\ UNCHANGED <<fixedVars, exit_code, all_snapshots, selection, selected_snapshots,
                   confirmation, results, reported>>

\* The exit status after the report: main returns, whatever results holds.
ExitOnFailures == IF results.failed # <<>> THEN 1 ELSE 0

ReportStatus == 0

\* Lines 315-332: the summary report, then main returns.
Report ==
    /\ pc = "loop"
    /\ idx = Len(selected_snapshots)
    /\ reported' = TRUE
    /\ Exit(ReportStatus)
    /\ UNCHANGED <<fixedVars, all_snapshots, selection, selected_snapshots, confirmation, idx,
                   results, processed, xferVars>>

\* Lines 336-340 (copy), 93-97 (mv): the snapshot named by --snapshot; a
\* reference the catalog does not hold is a KeyError.
Locate ==
    /\ pc = "locate"
    /\ \/ /\ snapshot_src # "absent"
          /\ \E i \in 1..Len(catalog) :
                /\ BeginTransfer(catalog[i])
                /\ pc' = "download"
                /\ UNCHANGED exit_code
       \/ /\ snapshot_src = "absent" \/ catalog = <<>>
          /\ Exit(UncaughtStatus)
          /\ UNCHANGED xferVars
    /\ UNCHANGED <<fixedVars, batchVars>>

\* copy_single_snapshot returns (success, error); lines 310-313 file the item.
FinishItem(success, error) ==
    /\ ret' = [success |-> success, error |-> error]
    /\ results' = IF success
                  THEN [results EXCEPT !.success = Append(@, snapshot.id)]
                  ELSE [results EXCEPT !.failed = Append(@, <<snapshot.id, error>>)]
    /\ xfer_done' = TRUE
    /\ pc' = "loop"
    /\ UNCHANGED exit_code

\* The process ends inside a transfer of single-item mode or of ipf-mv-snap.py.
ExitInTransfer(code) ==
    /\ Exit(code)
    /\ xfer_done' = TRUE
    /\ UNCHANGED <<ret, results>>

\* Whether the `except Exception` of line 160 stops an exception raised inside
\* copy_single_snapshot.
OuterExceptCatchesUploadOnly(exc) == exc \notin {"DownloadError", "AttributeError"}

OuterExceptCatches(exc) == TRUE

\* An exception the transfer's own handlers do not stop: the outer handler of
\* copy_single_snapshot in batch mode (lines 160-162), none elsewhere.
Unhandled(exc) ==
    IF Mode = "batch" /\ OuterExceptCatches(exc)
    THEN FinishItem(FALSE, <<exc>>)
    ELSE ExitInTransfer(UncaughtStatus)

\* Line 136 (copy), 344 (copy, single item), 100 (mv): download() is called
\* and asks the source for an export job.
DownloadStart ==
    /\ pc = "download"
    /\ started' = started + 1
    /\ \/ /\ pc' = "polling"
          /\ job' = "running"
          /\ UNCHANGED <<exit_code, ret, results, xfer_done>>
       \/ /\ Unhandled("DownloadError")     \* the source cannot be reached
          /\ UNCHANGED job
    /\ UNCHANGED <<fixedVars, all_snapshots, selection, selected_snapshots, confirmation, idx,
                   processed, reported, snapshot, polls, download_path, upload_file,
                   requests, up, files, unlinks, unlink_failed>>

\* The retry budget handed to download().
Retry == IF script = "mv" THEN JOB_CHECK_LOOP_MV ELSE JOB_CHECK_LOOP

\* download() ends without a file: it returns None or raises.
DownloadFails ==
    /\ UNCHANGED <<download_path, files>>
    /\ \/ pc' = "downloaded" /\ UNCHANGED <<exit_code, ret, results, xfer_done>>
       \/ Unhandled("DownloadError")

\* One check of the export job by download(): the job is still running, or it
\* is done and download() writes the file and returns its path, or it has
\* failed and download() ends.
Poll(status) ==
    /\ pc = "polling"
    /\ polls < Retry
    /\ polls' = IF status = "running" THEN polls + 1 ELSE 0
    /\ job' = status
    /\ CASE status = "running" ->
              UNCHANGED <<pc, exit_code, ret, results, xfer_done, download_path, files>>
         [] status = "done" ->
              /\ download_path' = snapshot.id
              /\ files' = files \cup {snapshot.id}
              /\ pc' = "downloaded"
              /\ UNCHANGED <<exit_code, ret, results, xfer_done>>
         [] status = "failed" -> DownloadFails
    /\ UNCHANGED <<fixedVars, all_snapshots, selection, selected_snapshots, confirmation, idx,
                   processed, reported, snapshot, upload_file, requests, up,
                   unlinks, unlink_failed, started>>

\* The retry budget is used up and the job is still running.
DownloadTimeout ==
    /\ pc = "polling"
    /\ polls = Retry
    /\ polls' = 0
    /\ job' = "timeout"
    /\ DownloadFails
    /\ UNCHANGED <<fixedVars, all_snapshots, selection, selected_snapshots, confirmation, idx,
                   processed, reported, snapshot, upload_file, requests, up,
                   unlinks, unlink_failed, started>>

\* Whether the code goes on to the upload with this download_path.
GoesOnAlways(path) == TRUE

\* copy: line 137/355, download_path.absolute() raises on None.
\* mv: line 101, `if not download_path`.
GoesOn(path) == path # NoPath

\* What follows the download() call, up to the upload.
AfterDownload ==
    /\ pc = "downloaded"
    /\ IF GoesOn(download_path)
       THEN /\ pc' = IF script = "mv" THEN "mv_client" ELSE "upload"
            /\ upload_file' = TRUE
            /\ UNCHANGED <<exit_code, ret, results, xfer_done>>
       ELSE /\ IF script = "mv"
               THEN ExitInTransfer(SysExitStatus)      \* line 105
               ELSE Unhandled("AttributeError")
            /\ UNCHANGED upload_file
    /\ UNCHANGED <<fixedVars, all_snapshots, selection, selected_snapshots, confirmation, idx,
                   processed, reported, snapshot, polls, job, download_path,
                   requests, up, files, unlinks, unlink_failed, started>>

\* Lines 142/361 and 185: the arguments of snap_upload are evaluated and the
\* file is opened; parse_auth raises TypeError on a destination credential
\* that is not a str.  Nothing has been sent yet.
UploadArgsRaise ==
    /\ pc = "upload"
    /\ up' = "TypeError"
    /\ pc' = "upload_failed"
    /\ UNCHANGED <<fixedVars, exit_code, batchVars, snapshot, polls, job, download_path,
                   upload_file, requests, files, unlinks, unlink_failed, ret,
                   xfer_done, started>>

\* Lines 186-190: the version request.
UploadVersion(vresp) ==
    /\ pc = "upload"
    /\ requests' = Append(requests, <<"GET", Answer(vresp)>>)
    /\ LET r == VersionStep(vresp) IN
       IF r.raised
       THEN up' = r.exc /\ pc' = "upload_failed"
       ELSE up' = up /\ pc' = "post"
    /\ UNCHANGED <<fixedVars, exit_code, batchVars, snapshot, polls, job, download_path,
                   upload_file, files, unlinks, unlink_failed, ret, xfer_done, started>>

\* Lines 192-204: the upload request and what snap_upload makes of the answer.
UploadPost(resp) ==
    /\ pc = "post"
    /\ requests' = Append(requests, <<"POST", Answer(resp)>>)
    /\ LET r == PostStep(resp) IN
       IF r.raised
       THEN up' = r.exc /\ pc' = "upload_failed"
       ELSE up' = (IF r.value = None THEN "conflict" ELSE "ok") /\ pc' = "upload_ok"
    /\ UNCHANGED <<fixedVars, exit_code, batchVars, snapshot, polls, job, download_path,
                   upload_file, files, unlinks, unlink_failed, ret, xfer_done, started>>

\* Whether the downloaded file is to be deleted.
DeletesNever(keep) == FALSE

Deletes(keep) == ~keep

\* download_path.unlink(): the file is gone, or the call raises OSError and the
\* file stays.
UnlinkLeavesFile(ok) ==
    /\ unlinks' = unlinks + 1
    /\ unlink_failed' = ~ok
    /\ files' = files

Unlink(ok) ==
    /\ unlinks' = unlinks + 1
    /\ unlink_failed' = ~ok
    /\ files' = IF ok THEN files \ {download_path} ELSE files

\* The error copy_single_snapshot returns after a failed upload (line 152):
\* f"Upload failed: {exc}".
UploadError == <<"Upload failed: ", "exc">>

\* Whether the handler of a failed upload ends the transfer after deleting the
\* file: `return` at line 152, sys.exit() at line 371.
HandlerFallsThrough == FALSE

HandlerLeaves == TRUE

\* Lines 147-152 (batch) and 366-371 (single item): the upload raised.
UploadFailed(ok) ==
    /\ pc = "upload_failed"
    /\ IF Deletes(keep_dl_file)
       THEN /\ Unlink(ok)
            /\ IF ~ok THEN Unhandled("OSError")
               ELSE IF ~HandlerLeaves
                    THEN pc' = "upload_ok" /\ UNCHANGED <<exit_code, ret, results, xfer_done>>
               ELSE IF Mode = "batch" THEN FinishItem(FALSE, UploadError)
               ELSE ExitInTransfer(SysExitStatus)          \* line 371
       ELSE /\ ok
            /\ UNCHANGED <<unlinks, unlink_failed, files>>
            /\ IF Mode = "batch" THEN FinishItem(FALSE, UploadError)
               ELSE ExitInTransfer(0)     \* lines 372-377 do nothing, main returns
    /\ UNCHANGED <<fixedVars, all_snapshots, selection, selected_snapshots, confirmation, idx,
                   processed, reported, snapshot, polls, job, download_path,
                   upload_file, requests, up, started>>

\* Lines 154-158 (batch) and 372-377 (single item): the upload returned.
UploadOk(ok) ==
    /\ pc = "upload_ok"
    /\ IF Deletes(keep_dl_file)
       THEN /\ Unlink(ok)
            /\ IF ~ok THEN Unhandled("OSError")
               ELSE IF Mode = "batch" THEN FinishItem(TRUE, <<>>)
               ELSE ExitInTransfer(0)
       ELSE /\ ok
            /\ UNCHANGED <<unlinks, unlink_failed, files>>
            /\ IF Mode = "batch" THEN FinishItem(TRUE, <<>>) ELSE ExitInTransfer(0)
    /\ UNCHANGED <<fixedVars, all_snapshots, selection, selected_snapshots, confirmation, idx,
                   processed, reported, snapshot, polls, job, download_path,
                   upload_file, requests, up, started>>

\* ipf-mv-snap.py lines 111-115: the destination client; no upload without it.
MvClient(ok) ==
    /\ pc = "mv_client"
    /\ upload_file' = ok
    /\ pc' = "mv_upload"
    /\ UNCHANGED <<fixedVars, exit_code, batchVars, snapshot, polls, job, download_path,
                   requests, up, files, unlinks, unlink_failed, ret, xfer_done, started>>

\* ipf-mv-snap.py lines 117-121: snapshot_upload() returns or raises; nothing
\* catches what it raises.
MvUpload(ok) ==
    /\ pc = "mv_upload"
    /\ IF upload_file
       THEN /\ requests' = Append(requests, <<"POST", IF ok THEN "2xx" ELSE "error">>)
            /\ IF ok
               THEN /\ up' = "ok"
                    /\ pc' = "mv_cleanup"
                    /\ UNCHANGED <<exit_code, xfer_done>>
               ELSE /\ up' = "UploadError"
                    /\ Exit(UncaughtStatus)
                    /\ xfer_done' = TRUE
       ELSE /\ ok
            /\ pc' = "mv_cleanup"
            /\ UNCHANGED <<requests, up, exit_code, xfer_done>>
    /\ UNCHANGED <<fixedVars, batchVars, snapshot, polls, job, download_path,
                   upload_file, files, unlinks, unlink_failed, ret, started>>

\* ipf-mv-snap.py lines 122-124, then main returns.
MvCleanup(ok) ==
    /\ pc = "mv_cleanup"
    /\ IF Deletes(keep_dl_file)
       THEN /\ Unlink(ok)
            /\ IF ok THEN ExitInTransfer(0) ELSE ExitInTransfer(UncaughtStatus)
       ELSE /\ ok
            /\ UNCHANGED <<unlinks, unlink_failed, files>>
            /\ ExitInTransfer(0)
    /\ UNCHANGED <<fixedVars, all_snapshots, selection, selected_snapshots, confirmation, idx,
                   processed, reported, snapshot, polls, job, download_path,
                   upload_file, requests, up, started>>

IdleMain ==
    /\ script = "copy" /\ interactive = FALSE /\ keep_dl_file = FALSE
    /\ snapshot_src = "$last" /\ catalog = <<>>
    /\ pc = "done" /\ exit_code = 0
    /\ all_snapshots = <<>> /\ selection = <<>> /\ selected_snapshots = <<>>
    /\ confirmation = "none"
    /\ idx = 0 /\ results = [success |-> <<>>, failed |-> <<>>]
    /\ snapshot = NoSnap /\ polls = 0 /\ job = "none" /\ download_path = NoPath
    /\ upload_file = FALSE /\ requests = <<>> /\ up = "none" /\ files = {}
    /\ unlinks = 0 /\ unlink_failed = FALSE /\ ret = NoRet /\ xfer_done = FALSE
    /\ processed = <<>> /\ started = 0 /\ reported = FALSE

(***************************************************************************)
(* snap_upload called repeatedly against one destination                   *)
(***************************************************************************)
\* Calls of snap_upload made in SpecUpload.
MaxCalls == 2
\* Files uploaded in SpecUpload.
MaxFiles == 2

\* snap_upload as a whole: what it returns or raises, given the destination's
\* answers to the version request and to the upload request.
snap_upload(vresp, resp) ==
    LET v == VersionStep(vresp) IN
    IF v.raised THEN v ELSE PostStep(resp)

VersionOk == Response(200, TRUE, "OTHER", None)

\* The destination's answer to the upload of file f (wire contract): a new
\* identifier, or the conflict error naming the identifier f already has.
DstAnswer(f, newid) ==
    IF \E p \in dst : p[1] = f
    THEN Response(HTTP_400_STATUS, TRUE, "API_SNAPSHOT_CONFLICT",
                  (CHOOSE p \in dst : p[1] = f)[2])
    ELSE Response(200, TRUE, "OTHER", newid)

\* One call snap_upload(server_dst, f, token) with the destination's two
\* answers; the destination keeps the snapshot when it answers 2xx.
UploadCall(f, vresp, resp) ==
    /\ Len(calls) < MaxCalls
    /\ calls' = Append(calls, [file |-> f, vresp |-> vresp, resp |-> resp,
                               result |-> snap_upload(vresp, resp)])
    /\ dst' = IF ~VersionStep(vresp).raised /\ resp # NoResponse /\ is_success(resp)
              THEN dst \cup {<<f, resp.snapshot>>}
              ELSE dst
    /\ UNCHANGED <<selVars, authVars, mainVars>>

\* The destination answers as the wire contract says, or fails: an error
\* status, or no answer at all.
UploadCalls ==
    \E f \in 1..MaxFiles :
      \E newid \in DstIds \ {p[2] : p \in dst} :
        \E vresp \in {VersionOk, Response(500, FALSE, "OTHER", None), NoResponse} :
          \E resp \in {DstAnswer(f, newid), Response(500, TRUE, "OTHER", None),
                       Response(409, TRUE, "API_SNAPSHOT_CONFLICT", None),
                       Response(HTTP_400_STATUS, TRUE, "OTHER", None),
                       Response(HTTP_400_STATUS, FALSE, "OTHER", None),
                       Response(200, FALSE, "OTHER", None), NoResponse} :
            UploadCall(f, vresp, resp)

\* One call parse_selection(sel_in, sel_n).
ParseSelection ==
    /\ ~sel_done
    /\ sel_out' = parse_selection(sel_in, sel_n)
    /\ sel_done' = TRUE
    /\ UNCHANGED <<sel_in, sel_n, authVars, mainVars, uploadVars>>

\* One call parse_auth(auth_in).
ParseAuth ==
    /\ ~auth_done
    /\ auth_out' = parse_auth(auth_in)
    /\ auth_done' = TRUE
    /\ UNCHANGED <<auth_in, selVars, mainVars, uploadVars>>

vars == <<selVars, authVars, mainVars, uploadVars>>

(***************************************************************************)
(* Specifications                                                          *)
(***************************************************************************)
Init == InitMain /\ IdleSel /\ IdleAuth /\ IdleUpload

Next ==
    \/ Connect
    \/ Listing
    \/ \E s \in SelectionInputs : Select(s)
    \/ \E answer \in BOOLEAN : Confirm(answer)
    \/ LoopNext
    \/ Report
    \/ Locate
    \/ DownloadStart
    \/ \E status \in {"running", "done", "failed"} : Poll(status)
    \/ DownloadTimeout
    \/ AfterDownload
    \/ UploadArgsRaise
    \/ \E vresp \in Responses({None}) \cup {NoResponse} : UploadVersion(vresp)
    \/ \E resp \in Responses(DstIds) \cup {NoResponse} : UploadPost(resp)
    \/ \E ok \in BOOLEAN : UploadFailed(ok)
    \/ \E ok \in BOOLEAN : UploadOk(ok)
    \/ \E ok \in BOOLEAN : MvClient(ok)
    \/ \E ok \in BOOLEAN : MvUpload(ok)
    \/ \E ok \in BOOLEAN : MvCleanup(ok)


Spec == Init /\ [][Next]_vars

\* The listing of lines 264-273 alone, over catalogs with start timestamps
\* 1..MaxStart (0: none) of up to MaxListed snapshots.
MaxStart == 2
MaxListed == 4

InitSort ==
    /\ script = "copy" /\ interactive = TRUE /\ keep_dl_file = FALSE
    /\ snapshot_src = "$last"
    /\ catalog \in CatalogsOver(0..MaxStart, MaxListed)
    /\ pc = "listing" /\ exit_code = 0
    /\ all_snapshots = <<>> /\ selection = <<>> /\ selected_snapshots = <<>>
    /\ confirmation = "none"
    /\ idx = 0 /\ results = [success |-> <<>>, failed |-> <<>>]
    /\ snapshot = NoSnap /\ polls = 0 /\ job = "none" /\ download_path = NoPath
    /\ upload_file = FALSE /\ requests = <<>> /\ up = "none" /\ files = {}
    /\ unlinks = 0 /\ unlink_failed = FALSE /\ ret = NoRet /\ xfer_done = FALSE
    /\ processed = <<>> /\ started = 0 /\ reported = FALSE
    /\ IdleSel /\ IdleAuth /\ IdleUpload

NextSort == Listing

SpecSort == InitSort /\ [][NextSort]_vars

\* The process runs on as long as it has a step to take: the interpreter does
\* not stop between statements, prompts are answered and requests end.
FairSpec == Spec /\ WF_vars(Next)

\* parse_selection on every selection string and catalog size within the bounds.
InitSelSpec == InitSel /\ IdleAuth /\ IdleMain /\ IdleUpload

NextSel == ParseSelection

SpecSel == InitSelSpec /\ [][NextSel]_vars

\* parse_auth on every credential within the bounds.
InitAuthSpec == InitAuth /\ IdleSel /\ IdleMain /\ IdleUpload

NextAuth == ParseAuth

SpecAuth == InitAuthSpec /\ [][NextAuth]_vars

\* snap_upload called up to MaxCalls times against one destination.
InitUpload == IdleUpload /\ IdleSel /\ IdleAuth /\ IdleMain

NextUpload == UploadCalls

SpecUpload == InitUpload /\ [][NextUpload]_vars

(***************************************************************************)
(* Properties                                                              *)
(***************************************************************************)
Batch == script = "copy" /\ interactive
SingleItem == ~interactive

\* The upload step of the current transfer has ended, one way or another.
UploadOutcomes ==
    {"ok", "conflict", "HTTPStatusError", "TransportError", "JSONDecodeError", "TypeError"}
UploadSucceeded == up \in {"ok", "conflict"}
UploadRaised == up \in UploadOutcomes \ {"ok", "conflict"}

\* A transfer of copy-snapshot.py has completed and its download produced a file.
CompletedWithArtifact == script = "copy" /\ xfer_done /\ download_path # NoPath

\* C1 (as stated): when a transfer of copy-snapshot.py whose download produced
\* a file has completed, whatever the upload's outcome, the file exists exactly
\* when --keep was given.
C1_Claim ==
    CompletedWithArtifact => (download_path \in files <=> keep_dl_file)

\* C1 (amended): when such a transfer has completed, the upload step has ended
\* in one of its outcomes; with --keep no deletion was attempted and the file
\* exists; without --keep exactly one deletion was attempted, and the file is
\* gone unless that deletion itself failed.
C1_Deletion ==
    CompletedWithArtifact =>
        /\ up \in UploadOutcomes
        /\ unlinks = (IF keep_dl_file THEN 0 ELSE 1)
        /\ unlink_failed => ~keep_dl_file
        /\ download_path \in files <=> (keep_dl_file \/ unlink_failed)

\* A batch item whose upload was rejected has completed without --keep and its
\* file has been deleted.
C1_Witness ==
    /\ Batch /\ CompletedWithArtifact /\ ~keep_dl_file
    /\ up = "HTTPStatusError"
    /\ unlinks = 1 /\ download_path \notin files

\* The items the loop has finished with.
Completed == IF xfer_done THEN idx ELSE Max({0, idx - 1})
SuccessIds == {results.success[i] : i \in 1..Len(results.success)}
FailedIds == {results.failed[i][1] : i \in 1..Len(results.failed)}

\* C2: in batch mode the items are handed to copy_single_snapshot in order,
\* each once; every finished item is in exactly one of the partitions success
\* and failed, whatever failed in it; the run never ends inside the loop, and
\* the report is made after all N items with len(success) + len(failed) = N.
C2_Isolation ==
    Batch =>
        /\ idx <= Len(selected_snapshots)
        /\ processed = [i \in 1..idx |-> selected_snapshots[i].id]
        /\ \A i, j \in 1..Len(processed) : processed[i] = processed[j] => i = j
        /\ Len(results.success) + Len(results.failed) = Completed
        /\ SuccessIds \cap FailedIds = {}
        /\ SuccessIds \cup FailedIds = {processed[i] : i \in 1..Completed}
        /\ (pc = "done" /\ started > 0) => reported
        /\ reported =>
              /\ idx = Len(selected_snapshots)
              /\ Len(results.success) + Len(results.failed) = Len(selected_snapshots)

\* Three items were selected, the second failed, the first and the third
\* succeeded, and the report was made.
C2_Witness ==
    /\ Batch /\ reported /\ Len(selected_snapshots) = 3
    /\ results.success = <<selected_snapshots[1].id, selected_snapshots[3].id>>
    /\ FailedIds = {selected_snapshots[2].id}

\* C3: when a call of snap_upload was answered 2xx with a new identifier and a
\* later call for the same file is answered with the conflict response naming
\* that identifier, neither call raises and both return that identifier.
C3_Claim ==
    \A i, j \in 1..Len(calls) :
        ( /\ i < j
          /\ calls[i].file = calls[j].file
          /\ calls[i].vresp = VersionOk /\ calls[j].vresp = VersionOk
          /\ calls[i].resp # NoResponse /\ is_success(calls[i].resp)
          /\ calls[j].resp = Response(HTTP_400_STATUS, TRUE, "API_SNAPSHOT_CONFLICT",
                                      calls[i].resp.snapshot) )
        => /\ ~calls[i].result.raised
           /\ ~calls[j].result.raised
           /\ calls[j].result.value = calls[i].result.value

\* C4: in single-item mode the process ends with status 0 only when the upload
\* succeeded or converged on a conflict.
C4_Claim ==
    (SingleItem /\ pc = "done" /\ exit_code = 0) => UploadSucceeded

\* C5: when the upload of a batch item fails and the deletion that follows
\* fails too, copy_single_snapshot still returns the upload error.
C5_Claim ==
    (Batch /\ xfer_done /\ UploadRaised /\ unlink_failed)
        => ret = [success |-> FALSE, error |-> UploadError]

\* C6: once the upload of a batch item has returned, copy_single_snapshot
\* returns success and the item is in the success partition, also when the
\* deletion that follows fails.
C6_Claim ==
    (Batch /\ xfer_done /\ UploadSucceeded)
        => /\ ret.success
           /\ snapshot.id \in SuccessIds
           /\ snapshot.id \notin FailedIds

\* A part that is a number, a well-formed range a-b, or neither.
IsRange(part) ==
    \E k \in 1..Len(part) :
        /\ part[k] = "-"
        /\ isdigit(SubSeq(part, 1, k - 1))
        /\ isdigit(SubSeq(part, k + 1, Len(part)))
Named(part) ==
    IF isdigit(part) THEN {int(part)}
    ELSE IF IsRange(part)
         THEN LET k == CHOOSE k \in 1..Len(part) : part[k] = "-"
              IN  int(SubSeq(part, 1, k - 1))..int(SubSeq(part, k + 1, Len(part)))
         ELSE {}

\* C7: parse_selection returns the ascending, duplicate-free list of the
\* indices i-1, i in [1, N], named by a part that is a number or a well-formed
\* range; every other part contributes nothing.
C7_Claim ==
    sel_done =>
        LET parts == split(RemoveSpaces(sel_in))
            named == UNION {Named(parts[k]) : k \in 1..Len(parts)}
        IN  /\ \A i, j \in 1..Len(sel_out) : i < j => sel_out[i] < sel_out[j]
            /\ {sel_out[i] : i \in 1..Len(sel_out)} =
                 {i - 1 : i \in {j \in named : 1 <= j /\ j <= sel_n}}

\* C8: for a credential string parse_auth does not raise and returns the string
\* unchanged or a pair; it returns the string unchanged when the string is not
\* parenthesized or does not parse as a literal.
C8_Claim ==
    (auth_done /\ auth_in # NotAStr) =>
        /\ auth_out.kind # "raise"
        /\ \/ auth_out = Str(auth_in)
           \/ auth_out.kind = "tuple" /\ Len(auth_out.items) = 2
        /\ ( \/ ~(startswith(auth_in, "(") /\ endswith(auth_in, ")"))
             \/ literal_eval(auth_in) \in {SyntaxErr, Raise("ValueError")} )
           => auth_out = Str(auth_in)

\* The retry budget each script hands to download().
Budget == IF script = "mv" THEN 10 ELSE 30

C9_Inv ==
    /\ pc = "polling" => polls <= Budget
    /\ job \in {"timeout", "failed"} =>
          /\ download_path = NoPath
          /\ requests = <<>> /\ up = "none"
          /\ pc \notin {"upload", "post", "upload_ok", "upload_failed",
                        "mv_client", "mv_upload", "mv_cleanup"}
    /\ (Batch /\ job = "timeout" /\ xfer_done) =>
          /\ ~ret.success
          /\ snapshot.id \in FailedIds
          /\ pc = "loop" \/ reported

C9_Step ==
    /\ (pc = "polling" /\ pc' = "polling") => polls' = polls + 1
    /\ (job # "timeout" /\ job' = "timeout") => (pc = "polling" /\ polls = Budget)
    /\ (Batch /\ pc = "loop" /\ job = "timeout" /\ idx < Len(selected_snapshots))
          => (idx' = idx + 1 /\ pc' = "download")

\* C9: every check of the export job that leaves the download running counts
\* towards the retry budget (30 in copy-snapshot.py, 10 in ipf-mv-snap.py) and
\* the count never exceeds it; the download times out only after exactly that
\* many checks; after a download that timed out or failed nothing is uploaded;
\* in batch mode the item is filed as failed and the loop goes on with the
\* next item.
C9_Bounded == []C9_Inv /\ [][C9_Step]_vars

\* The download of a batch item has timed out, the item was filed as failed
\* without an upload, and the loop has items left.
C9_Witness ==
    /\ Batch /\ job = "timeout" /\ xfer_done /\ pc = "loop"
    /\ idx < Len(selected_snapshots)
    /\ snapshot.id \in FailedIds /\ requests = <<>>

\* C10: in batch mode a download or an upload has started only after the
\* operator answered yes; after the answer no the run is over with exit status
\* 0, no transfer started and no report.
C10_Confirmed ==
    Batch =>
        /\ (started > 0 \/ processed # <<>> \/ requests # <<>> \/ idx > 0)
              => confirmation = "yes"
        /\ confirmation = "no" =>
              /\ pc = "done" /\ exit_code = 0
              /\ started = 0 /\ processed = <<>> /\ requests = <<>>
              /\ ~reported

\* The operator declined and the run is over.
C10_Witness ==
    /\ Batch /\ confirmation = "no" /\ pc = "done"
    /\ Len(selected_snapshots) > 0

\* C11: in batch mode a run over an empty source catalog ends with exit status
\* 1 without a selection prompt, and a run whose parsed selection is empty ends
\* with exit status 1 without a confirmation prompt; in neither is a download
\* or an upload started.
C11_FailFast ==
    Batch =>
        /\ catalog = <<>> =>
              /\ pc \in {"start", "listing", "done"}
              /\ pc = "done" => exit_code = 1
              /\ selection = <<>> /\ confirmation = "none"
              /\ started = 0 /\ requests = <<>> /\ processed = <<>>
        /\ (selection # <<>> /\ parse_selection(selection, Len(all_snapshots)) = <<>>) =>
              /\ pc = "done" /\ exit_code = 1
              /\ selected_snapshots = <<>> /\ confirmation = "none"
              /\ started = 0 /\ requests = <<>> /\ processed = <<>>

\* The operator typed a selection that names no listed snapshot and the run
\* has ended with status 1.
C11_Witness ==
    /\ Batch /\ Len(all_snapshots) > 0 /\ selection = <<"x">>
    /\ pc = "done" /\ exit_code = 1 /\ started = 0

\* The place of a snapshot in the displayed listing.
ListingIndex(s) == CHOOSE k \in 1..Len(all_snapshots) : all_snapshots[k].id = s.id

\* C12: in batch mode the selected snapshots are listed snapshots, held and
\* handed to copy_single_snapshot in ascending order of their listing index,
\* whatever the order the operator typed them in: "3,1" and "1,3" both give
\* the first listed snapshot, then the third.
C12_ListingOrder ==
    Batch =>
        /\ \A i \in 1..Len(selected_snapshots) :
              \E k \in 1..Len(all_snapshots) : all_snapshots[k] = selected_snapshots[i]
        /\ \A i, j \in 1..Len(selected_snapshots) :
              i < j => ListingIndex(selected_snapshots[i]) < ListingIndex(selected_snapshots[j])
        /\ \A i, j \in 1..Len(processed) :
              i < j => /\ processed[i] = selected_snapshots[i].id
                       /\ processed[j] = selected_snapshots[j].id
        /\ (selection \in {<<"3", ",", "1">>, <<"1", ",", "3">>} /\ Len(all_snapshots) >= 3
              /\ selected_snapshots # <<>>)
              => selected_snapshots = <<all_snapshots[1], all_snapshots[3]>>

\* The operator typed "3,1" and the first listed snapshot, then the third, have
\* been handed to copy_single_snapshot.
C12_Witness ==
    /\ Batch /\ selection = <<"3", ",", "1">> /\ Len(all_snapshots) = 3
    /\ processed = <<all_snapshots[1].id, all_snapshots[3].id>>

C13_Started == Batch /\ confirmation = "yes"

\* C13: in batch mode, once the operator has confirmed, the run ends only
\* after the summary report and with exit status 0, whatever the partitions
\* hold, and it does reach the report.
C13_ReportsAndExitsZero ==
    /\ []((C13_Started /\ pc = "done") => (reported /\ exit_code = 0))
    /\ [](C13_Started /\ reported => pc = "done")
    /\ C13_Started ~> reported

\* All three selected items failed, the report was made and the status is 0.
C13_Witness ==
    /\ C13_Started /\ reported /\ pc = "done" /\ exit_code = 0
    /\ results.success = <<>> /\ Len(results.failed) = 3

\* C14: when a run of ipf-mv-snap.py without --keep whose download produced a
\* file has ended, and no deletion has failed, the file no longer exists,
\* whether the destination client could not be created, the upload succeeded
\* or the upload raised.
C14_Claim ==
    (script = "mv" /\ pc = "done" /\ download_path # NoPath
        /\ ~keep_dl_file /\ ~unlink_failed)
        => download_path \notin files

\* The calls of snap_upload whose upload request was answered.
Answered == {i \in 1..Len(calls) : calls[i].vresp = VersionOk /\ calls[i].resp # NoResponse}

\* C15 (as stated, for answers whose body is JSON): snap_upload raises exactly
\* when the answer to the upload request is non-2xx and not a conflict
\* response, a conflict response being any 4xx answer whose body carries the
\* conflict code; a 2xx answer returns the parsed body and a conflict response
\* returns without raising.
C15_Claim ==
    \A i \in {k \in Answered : calls[k].resp.json} :
        LET resp == calls[i].resp
            conflict == /\ 400 <= resp.status /\ resp.status <= 499
                        /\ resp.code = "API_SNAPSHOT_CONFLICT"
        IN  /\ calls[i].result.raised <=> (~is_success(resp) /\ ~conflict)
            /\ is_success(resp) => calls[i].result = Returned(resp.snapshot)

\* C15 (amended): a conflict response is an answer with status 400 whose JSON
\* body carries the conflict code.  snap_upload raises exactly when the answer
\* is not a conflict response and is non-2xx or has a body that is not JSON; a
\* 2xx answer with a JSON body returns the parsed body and a conflict response
\* returns None.
C15_Raises ==
    \A i \in Answered :
        LET resp == calls[i].resp
            conflict == /\ resp.status = 400
                        /\ resp.json /\ resp.code = "API_SNAPSHOT_CONFLICT"
        IN  /\ calls[i].result.raised <=> (~conflict /\ (~is_success(resp) \/ ~resp.json))
            /\ (is_success(resp) /\ resp.json) => calls[i].result = Returned(resp.snapshot)
            /\ conflict => calls[i].result = Returned(None)
            /\ (~is_success(resp) /\ ~conflict /\ (resp.json \/ resp.status # 400))
                  => calls[i].result = Raised("HTTPStatusError")

\* An upload answered 409 with the conflict code has raised.
C15_Witness ==
    \E i \in Answered :
        /\ calls[i].resp = Response(409, TRUE, "API_SNAPSHOT_CONFLICT", None)
        /\ calls[i].result = Raised("HTTPStatusError")

\* The version request of the current transfer was sent and did not succeed.
VersionFailed ==
    script = "copy" /\ Len(requests) >= 1 /\ requests[1] # <<"GET", "2xx">>

C16_Inv ==
    script = "copy" =>
        /\ Len(requests) <= 2
        /\ Len(requests) >= 1 => requests[1][1] = "GET"
        /\ Len(requests) = 2 => (requests[1] = <<"GET", "2xx">> /\ requests[2][1] = "POST")
        /\ VersionFailed =>
              /\ Len(requests) = 1
              /\ UploadRaised
              /\ pc \in {"upload_failed", "loop", "done"}
              /\ (Batch /\ xfer_done) => (~ret.success /\ snapshot.id \in FailedIds)

C16_Step ==
    (script = "copy" /\ Len(requests') > Len(requests)
        /\ requests'[Len(requests')][1] = "POST")
        => (requests = <<(<<"GET", "2xx">>)>> /\ pc = "post" /\ up = "none")

\* C16: snap_upload sends the version request first and the upload request
\* only after the version request was answered 2xx and processed; when the
\* version request fails no upload request is sent in that transfer and the
\* transfer ends as a failed upload.
C16_VersionFirst == []C16_Inv /\ [][C16_Step]_vars

\* The version request of a batch item was answered with an error status and
\* the item was filed as failed without an upload request.
C16_Witness ==
    /\ Batch /\ xfer_done /\ requests = <<(<<"GET", "error">>)>>
    /\ up = "HTTPStatusError" /\ snapshot.id \in FailedIds

\* A deletion has failed in this run: the item was filed with the OSError.
DeletionFailed ==
    unlink_failed \/ \E i \in 1..Len(results.failed) : results.failed[i][2] = <<"OSError">>

C17_Inv ==
    Batch =>
        /\ started \in {idx - 1, idx} \cap Nat
        /\ ~xfer_done => Len(results.success) + Len(results.failed) = Max({0, idx - 1})
        /\ pc \in {"download", "polling", "downloaded", "upload", "post",
                   "upload_ok", "upload_failed"}
              => (~xfer_done /\ idx >= 1 /\ snapshot = selected_snapshots[idx])
        /\ (~keep_dl_file /\ ~DeletionFailed) =>
              /\ Cardinality(files) <= 1
              /\ files \subseteq {download_path}
              /\ xfer_done => files = {}

C17_Step ==
    (Batch /\ started' # started) =>
        /\ started' = started + 1
        /\ started = idx - 1
        /\ Len(results.success) + Len(results.failed) = idx - 1
        /\ ~xfer_done

\* C17: in batch mode at most one transfer is in flight: a download starts
\* only when every earlier item has returned its outcome, the transfer under
\* way is that of the loop's current item, and without --keep, as long as no
\* deletion has failed, the only downloaded file on disk is the current
\* item's, and none is left once the item has returned.
C17_OneInFlight == []C17_Inv /\ [][C17_Step]_vars

\* The first item was uploaded and its file deleted; the second item's file is
\* the only one on disk and is about to be uploaded.
C17_Witness ==
    /\ Batch /\ ~keep_dl_file /\ idx = 2 /\ pc = "upload"
    /\ Len(results.success) = 1 /\ files = {download_path}

Posts == {i \in 1..Len(requests) : requests[i][1] = "POST"}

C18_Inv ==
    script = "copy" =>
        /\ unlinks <= 1
        /\ Cardinality(Posts) <= 1
        /\ unlinks = 1 =>
              /\ up \in UploadOutcomes
              /\ ~keep_dl_file
              /\ unlink_failed \/ download_path \notin files
              /\ pc \in {"loop", "done"} /\ xfer_done

C18_Step ==
    script = "copy" =>
        /\ unlinks' > unlinks => (unlinks = 0 /\ pc \in {"upload_ok", "upload_failed"})
        /\ (unlinks = 1 /\ requests' # requests) => (unlinks' = 0 /\ requests' = <<>>)
        /\ Len(requests') > Len(requests) => download_path \in files

\* C18: in every transfer of copy-snapshot.py the file is deleted at most once,
\* and only after the upload step has ended; the upload request is sent at
\* most once, while the file exists; once the deletion was attempted the
\* transfer is over: nothing is sent and nothing is deleted any more until the
\* next transfer begins.
C18_DeletedOnce == []C18_Inv /\ [][C18_Step]_vars

\* In single-item mode the upload raised, the file was deleted once and the
\* process has ended.
C18_Witness ==
    /\ script = "copy" /\ ~interactive /\ pc = "done" /\ UploadRaised
    /\ unlinks = 1 /\ download_path # NoPath /\ download_path \notin files

\* C19: a completed transfer of copy-snapshot.py whose upload was answered
\* with the conflict response is a success: a batch item is in the success
\* partition and not in the failed one, a single-item run has ended with
\* status 0, and the file was handled as after any successful upload (one
\* deletion without --keep, none with it).
C19_Claim ==
    (script = "copy" /\ xfer_done /\ up = "conflict") =>
        /\ Batch => (ret.success /\ snapshot.id \in SuccessIds /\ snapshot.id \notin FailedIds)
        /\ SingleItem => (pc = "done" /\ exit_code = 0)
        /\ unlinks = (IF keep_dl_file THEN 0 ELSE 1)

\* The place of a listed snapshot in the source catalog.
CatalogIndex(s) == CHOOSE k \in 1..Len(catalog) : catalog[k] = s

\* C20: the listing holds every snapshot of the catalog exactly once; a
\* snapshot without a start timestamp comes after all that have one, those
\* that have one are in descending order of it, and snapshots with equal
\* timestamps (or both without one) keep their catalog order.
C20_Listing ==
    (script = "copy" /\ interactive /\ pc \notin {"start", "listing"}) =>
        /\ Len(all_snapshots) = Len(catalog)
        /\ \A k \in 1..Len(catalog) :
              Cardinality({i \in 1..Len(all_snapshots) : all_snapshots[i] = catalog[k]}) = 1
        /\ \A i, j \in 1..Len(all_snapshots) :
              i < j =>
                 /\ all_snapshots[i].start = 0 => all_snapshots[j].start = 0
                 /\ all_snapshots[i].start >= all_snapshots[j].start
                 /\ all_snapshots[i].start = all_snapshots[j].start
                       => CatalogIndex(all_snapshots[i]) < CatalogIndex(all_snapshots[j])

\* A catalog with a snapshot without start timestamp first and two snapshots
\* of equal timestamp has been listed.
C20_Witness ==
    /\ pc = "selecting"
    /\ catalog = <<Snap(1, 0), Snap(2, 1), Snap(3, 2), Snap(4, 1)>>
    /\ all_snapshots = <<Snap(3, 2), Snap(2, 1), Snap(4, 1), Snap(1, 0)>>

=============================================================================
